---- MODULE Spec2Model ----
(***************************************************************************)
(* The username authenticator of "Concurrent Programming": main.cpp and    *)
(* core_functions.cpp.  One process run is a sequence of steps of main();  *)
(* the inputs of a run are the state of the file .user, the argument list  *)
(* and the inherited value of the environment variable "username".         *)
(*                                                                         *)
(* The text of .user is a sequence of tokens: a token is either the        *)
(* newline character or a chunk of characters holding no newline.          *)
(***************************************************************************)
EXTENDS Naturals, Sequences, FiniteSets, TLC

\* ------------------------------------------------------------------ bounds
\* Number of tokens of the file text.
MaxFile == 3
\* Number of command-line arguments after the program name.
MaxArgs == 2

\* --------------------------------------------------------------- constants
\* main.cpp:17
USERNAME == "testuser"
\* main.cpp:28
FILE_ERROR == "Error opening file. Shutting down..."
\* main.cpp:60
MISMATCH_ERROR == "Error your usernames don't match check code and .user file."
\* the delimiter of getline, main.cpp:33
NL == "\n"

\* Chunks of text a file may hold, and the arguments a user may give.
Chunks == {"testuser", "alice"}
Tokens == Chunks \cup {NL}
ArgValues == {"testuser", "alice"}
\* Values "username" may hold when the process starts; <<>> is "not set".
EnvValues == {<<>>, <<"alice">>, <<USERNAME>>}
\* Stray bytes an invalid pointer may happen to reference: no username.
GARBAGE == "#?"

SeqsUpTo(S, n) == UNION {[1..k -> S] : k \in 0..n}

\* ------------------------------------------------------------ pure functions
\* core_functions.cpp:9-12, the text printMessage writes.
printMessage(text) == "Hello " \o text \o "!"

\* core_functions.cpp:15-24.  e is the environment variable: <<>> when it
\* is not set (getenv returns nullptr), <<v>> when it holds v.
verifyUser(name, e) ==
    IF e = <<>> THEN FALSE ELSE name = e[1]

\* std::getline(fin, line, '\n') once the sentry has succeeded: characters
\* are appended to acc until end of file (eofbit) or until the delimiter,
\* which is extracted and not stored.
RECURSIVE Extract(_, _, _)
Extract(c, p, acc) ==
    IF p > Len(c)
    THEN [str |-> acc, pos |-> p, eof |-> TRUE]
    ELSE IF c[p] = NL
         THEN [str |-> acc, pos |-> p + 1, eof |-> FALSE]
         ELSE Extract(c, p + 1, acc \o c[p])

\* main.cpp:26, `if (!fin)`: the stream is in a failed state after the
\* constructor when the file could not be opened.
FinFailsNever(exists) == FALSE
FinFails(exists) == ~exists

\* main.cpp:28, the message written when the file cannot be opened.
OpenFailWrongMessage == MISMATCH_ERROR
OpenFailMessage == FILE_ERROR

\* main.cpp:29, the status main returns when the file cannot be opened.
OpenFailReturn == 1

\* main.cpp:35, the loop body: the pointer takes the address of the buffer
\* of the loop's string, whatever the line holds.
ForBodySkipBlank(ptr, ln) == IF ln = "" THEN ptr ELSE "line"
ForBody(ptr, ln) == "line"

\* main.cpp:33/36: leaving the for statement destroys its string `line`; a
\* pointer into it dangles from then on, an unassigned one stays unassigned.
AfterLoop(ptr) == IF ptr = "line" THEN "dangling" ELSE ptr

\* main.cpp:38, fin.close(): the handle is released.
CloseLeaks(open) == open
FinClose(open) == FALSE

\* main.cpp:39, the C string setenv reads through usernameFromFile.  The
\* pointer is never valid here: it is unassigned (no line was read) or it
\* points into the destroyed string.  The read is undefined behaviour, and
\* what it yields is not fixed by the file and the arguments: a fault, the
\* empty string (a zero byte first), stray bytes or, through the dangling
\* pointer, the bytes the destroyed string last held (residual).  Which
\* one depends on what lies in memory at that moment: on the build, on the
\* size of the environment (setenv may reuse the freed buffer before it
\* copies the value) and on the run.
ReadThroughPointer(ptr, residual) ==
    LET bytes == IF ptr = "dangling"
                 THEN {residual, "", GARBAGE}
                 ELSE {"", GARBAGE}
    IN  {[fault |-> FALSE, str |-> s] : s \in bytes}
            \cup {[fault |-> TRUE, str |-> ""]}

\* main.cpp:39, 49: setenv(name, value, 1) replaces the value the variable
\* holds, if any.
Setenv(e, value) == <<value>>

\* main.cpp:42-45
ArgUsername(args) == IF Len(args) + 1 > 1 THEN args[1] ELSE ""

\* ------------------------------------------------------------------- state
VARIABLES
    fileExists,     \* .user can be opened
    fileContent,    \* its text
    argv,           \* argv[1..argc-1]
    env,            \* the environment variable "username"
    envAtStart,     \* its value when the process started
    pc,             \* position in main()
    finOpen,        \* fin holds an open file handle
    finPos,         \* read position of fin
    finEof,         \* eofbit of fin
    line,           \* bytes in the buffer of the loop's string
    usernameFromFile, \* "uninit", "line" or "dangling"
    username, validUser, results,
    out,            \* lines written to stdout
    exitStatus,     \* <<>> while running or killed, <<n>> after return n
    setenvCalls,    \* number of setenv calls made
    verified,       \* results of the verifyUser calls made, in order
    usedPtr,        \* state of the pointer when setenv read through it
    run,            \* 1 for the first run, 2 for the second
    prev            \* how the first run started and ended

vars == <<fileExists, fileContent, argv, env, envAtStart, pc, finOpen,
          finPos, finEof, line, usernameFromFile, username, validUser,
          results, out, exitStatus, setenvCalls, verified, usedPtr, run,
          prev>>

inputs == <<fileExists, fileContent, argv, envAtStart>>
stream == <<finOpen, finPos, finEof>>

\* main.cpp:19-22: a process starts.
Init ==
    /\ fileExists \in BOOLEAN
    /\ fileContent \in SeqsUpTo(Tokens, MaxFile)
    /\ (~fileExists => fileContent = <<>>)
    /\ argv \in SeqsUpTo(ArgValues, MaxArgs)
    /\ env \in EnvValues
    /\ envAtStart = env
    /\ pc = "open"
    /\ finOpen = FALSE /\ finPos = 1 /\ finEof = FALSE
    /\ line = ""
    /\ usernameFromFile = "uninit"
    /\ username = "" /\ validUser = FALSE /\ results = 1
    /\ out = <<>> /\ exitStatus = <<>>
    /\ setenvCalls = 0 /\ verified = <<>>
    /\ usedPtr = "none"
    /\ run = 1
    /\ prev = <<>>

\* main.cpp:25-30
OpenFail ==
    /\ pc = "open"
    /\ FinFails(fileExists)
    /\ out' = Append(out, OpenFailMessage)
    /\ exitStatus' = <<OpenFailReturn>>
    /\ pc' = "done"
    /\ UNCHANGED <<inputs, env, stream, line, usernameFromFile, username,
                   validUser, results, setenvCalls, verified, usedPtr,
                   run, prev>>

\* main.cpp:25-26, 32
OpenOk ==
    /\ pc = "open"
    /\ ~FinFails(fileExists)
    /\ finOpen' = fileExists
    /\ pc' = "getline"
    /\ UNCHANGED <<inputs, env, finPos, finEof, line, usernameFromFile,
                   username, validUser, results, out, exitStatus,
                   setenvCalls, verified, usedPtr, run, prev>>

\* The stream is good(): the sentry of getline succeeds.
SentryOk == finOpen /\ ~finEof

\* main.cpp:33-36: getline extracted something, the body runs.
GetLineOk ==
    /\ pc = "getline"
    /\ SentryOk
    /\ LET r == Extract(fileContent, finPos, "") IN
        /\ r.pos > finPos
        /\ line' = r.str
        /\ finPos' = r.pos
        /\ finEof' = r.eof
        /\ usernameFromFile' = ForBody(usernameFromFile, r.str)
    /\ UNCHANGED <<inputs, env, pc, finOpen, username, validUser, results,
                   out, exitStatus, setenvCalls, verified, usedPtr, run,
                   prev>>

\* main.cpp:33, 36: getline fails and the loop ends.  With a good stream
\* the string was erased before nothing could be extracted; with eofbit set
\* the sentry fails and the string is left as it was.
GetLineEnd ==
    /\ pc = "getline"
    /\ \/ /\ SentryOk
          /\ Extract(fileContent, finPos, "").pos = finPos
          /\ line' = ""
          /\ finEof' = TRUE
       \/ /\ ~SentryOk
          /\ UNCHANGED <<line, finEof>>
    /\ usernameFromFile' = AfterLoop(usernameFromFile)
    /\ pc' = "close"
    /\ UNCHANGED <<inputs, env, finOpen, finPos, username, validUser,
                   results, out, exitStatus, setenvCalls, verified,
                   usedPtr, run, prev>>

\* main.cpp:38
Close ==
    /\ pc = "close"
    /\ finOpen' = FinClose(finOpen)
    /\ pc' = "setenv1"
    /\ UNCHANGED <<inputs, env, finPos, finEof, line, usernameFromFile,
                   username, validUser, results, out, exitStatus,
                   setenvCalls, verified, usedPtr, run, prev>>

\* main.cpp:39
SetenvFile ==
    /\ pc = "setenv1"
    /\ usedPtr' = usernameFromFile
    /\ \E r \in ReadThroughPointer(usernameFromFile, line) :
        \/ /\ ~r.fault
           /\ env' = Setenv(env, r.str)
           /\ setenvCalls' = setenvCalls + 1
           /\ pc' = "getarg"
        \/ /\ r.fault
           /\ pc' = "crashed"
           /\ UNCHANGED <<env, setenvCalls>>
    /\ UNCHANGED <<inputs, stream, line, usernameFromFile, username,
                   validUser, results, out, exitStatus, verified, run,
                   prev>>

\* main.cpp:42-45
GetArg ==
    /\ pc = "getarg"
    /\ username' = ArgUsername(argv)
    /\ pc' = "verify1"
    /\ UNCHANGED <<inputs, env, stream, line, usernameFromFile, validUser,
                   results, out, exitStatus, setenvCalls, verified,
                   usedPtr, run, prev>>

\* main.cpp:48
Verify1 ==
    /\ pc = "verify1"
    /\ validUser' = verifyUser(username, env)
    /\ verified' = Append(verified, validUser')
    /\ pc' = "setenv2"
    /\ UNCHANGED <<inputs, env, stream, line, usernameFromFile, username,
                   results, out, exitStatus, setenvCalls, usedPtr, run,
                   prev>>

\* main.cpp:49
SetenvConst ==
    /\ pc = "setenv2"
    /\ env' = Setenv(env, USERNAME)
    /\ setenvCalls' = setenvCalls + 1
    /\ pc' = "verify2"
    /\ UNCHANGED <<inputs, stream, line, usernameFromFile, username,
                   validUser, results, out, exitStatus, verified,
                   usedPtr, run, prev>>

\* main.cpp:50, `validUser && verifyUser(username)`: the call is made only
\* when validUser is true.
Verify2 ==
    /\ pc = "verify2"
    /\ \/ /\ validUser
          /\ validUser' = verifyUser(username, env)
          /\ verified' = Append(verified, validUser')
       \/ /\ ~validUser
          /\ UNCHANGED <<validUser, verified>>
    /\ pc' = "report"
    /\ UNCHANGED <<inputs, env, stream, line, usernameFromFile, username,
                   results, out, exitStatus, setenvCalls, usedPtr, run,
                   prev>>

\* main.cpp:53-62
Report ==
    /\ pc = "report"
    /\ \/ /\ validUser
          /\ out' = Append(out, printMessage(username))
          /\ results' = 0
          /\ exitStatus' = <<0>>
       \/ /\ ~validUser
          /\ out' = Append(out, MISMATCH_ERROR)
          /\ results' = results
          /\ exitStatus' = <<results>>
    /\ pc' = "done"
    /\ UNCHANGED <<inputs, env, stream, line, usernameFromFile, username,
                   validUser, setenvCalls, verified, usedPtr, run, prev>>

\* The process has ended: main returned, or a fault killed it.
Ended == pc \in {"done", "crashed"}

\* main.cpp:19-22: the program is started a second time on the same file
\* and arguments.  The new process finds "username" as the first process
\* found it, as the first process left it (the caller exports what the
\* first one wrote), or with any other value.
Rerun ==
    /\ Ended
    /\ run = 1
    /\ run' = 2
    /\ prev' = <<[out |-> out, exitStatus |-> exitStatus, pc |-> pc,
                  envAtStart |-> envAtStart, envAtEnd |-> env]>>
    /\ env' \in {env} \cup EnvValues
    /\ envAtStart' = env'
    /\ pc' = "open"
    /\ finOpen' = FALSE /\ finPos' = 1 /\ finEof' = FALSE
    /\ line' = ""
    /\ usernameFromFile' = "uninit"
    /\ username' = "" /\ validUser' = FALSE /\ results' = 1
    /\ out' = <<>> /\ exitStatus' = <<>>
    /\ setenvCalls' = 0 /\ verified' = <<>>
    /\ usedPtr' = "none"
    /\ UNCHANGED <<fileExists, fileContent, argv>>

Next ==
    \/ OpenFail
    \/ OpenOk
    \/ GetLineOk
    \/ GetLineEnd
    \/ Close
    \/ SetenvFile
    \/ GetArg
    \/ Verify1
    \/ SetenvConst
    \/ Verify2
    \/ Report
    \/ Rerun

Spec == Init /\ [][Next]_vars

\* ------------------------------------------------------------------ claims
\* What the specification calls the inputs of a run.

\* The lines of the file text: each ends at a newline or at end of file.
RECURSIVE LinesFrom(_, _)
LinesFrom(c, p) ==
    IF p > Len(c) THEN <<>>
    ELSE LET r == Extract(c, p, "") IN <<r.str>> \o LinesFrom(c, r.pos)

FileLines == LinesFrom(fileContent, 1)
\* The stored credential: the last line of the file.
StoredCredential == FileLines[Len(FileLines)]
NonEmptyLines == SelectSeq(FileLines, LAMBDA l : l # "")
LastNonEmptyLine == NonEmptyLines[Len(NonEmptyLines)]
\* The supplied credential: the first argument, or the empty string.
Supplied == IF argv = <<>> THEN "" ELSE Head(argv)
Greeting == "Hello " \o Supplied \o "!"
verifyCalls == Len(verified)

\* C1: when .user opens and holds at least one line, the run exits 0 and
\* prints "Hello <supplied>!" if and only if the supplied username equals
\* the stored credential and equals "testuser"; otherwise it exits 1.
C1_ExitZeroIffBothMatch ==
    (Ended /\ fileExists /\ FileLines # <<>>) =>
        IF Supplied = StoredCredential /\ Supplied = USERNAME
        THEN pc = "done" /\ exitStatus = <<0>> /\ out = <<Greeting>>
        ELSE pc = "done" /\ exitStatus = <<1>>

\* C2: the value the supplied username is first compared against is the
\* last line of the file that is not empty.
C2_ComparedAgainstLastNonEmptyLine ==
    (pc = "verify1" /\ NonEmptyLines # <<>>) => env = <<LastNonEmptyLine>>

\* C3: when .user cannot be opened the run prints the file-open error and
\* exits 1 whatever the arguments are; neither the greeting nor the mismatch
\* error is ever printed.
C3_OpenFailure ==
    ~fileExists =>
        /\ out \in {<<>>, <<FILE_ERROR>>}
        /\ Ended => (pc = "done" /\ out = <<FILE_ERROR>> /\ exitStatus = <<1>>)

C3_Witness ==
    /\ ~fileExists /\ pc = "done"
    /\ argv # <<>> /\ Head(argv) = USERNAME
    /\ out = <<FILE_ERROR>> /\ exitStatus = <<1>>

\* C4: when the file opens and the supplied username fails either
\* comparison, the run prints the mismatch error, exits 1 and never prints
\* the greeting.
C4_MismatchRejected ==
    (fileExists /\ (Supplied # USERNAME
                    \/ (FileLines # <<>> /\ Supplied # StoredCredential))) =>
        /\ out \in {<<>>, <<MISMATCH_ERROR>>}
        /\ Ended => (pc = "done" /\ out = <<MISMATCH_ERROR>>
                     /\ exitStatus = <<1>>)

\* C5: the first setenv reads a pointer that was never assigned exactly
\* when the file opened and held no line: the loop body never ran.
C5_UnassignedPointerOnlyEmptyFile ==
    /\ usedPtr = "uninit" => (fileExists /\ fileContent = <<>>)
    /\ (usedPtr # "none" /\ fileExists /\ fileContent = <<>>)
           => usedPtr = "uninit"

C5_Witness ==
    /\ fileExists /\ fileContent = <<>>
    /\ usedPtr = "uninit" /\ usernameFromFile = "uninit"
    /\ pc \in {"getarg", "crashed"}

\* C6: a second run on the same file and arguments ends with the output
\* and the exit of the first run, whether "username" holds at its start
\* what it held when the first run started or what the first run wrote.
C6_SecondRunSameResult ==
    (run = 2 /\ Ended
        /\ envAtStart \in {prev[1].envAtStart, prev[1].envAtEnd}) =>
        /\ prev[1].out = out
        /\ prev[1].exitStatus = exitStatus
        /\ prev[1].pc = pc

\* C7: the username compared is the first argument, or the empty string
\* when none is given; a run with no argument on a file that opens prints
\* the mismatch error and exits 1.
C7_NoArgumentNeverSucceeds ==
    /\ pc \in {"verify1", "setenv2", "verify2", "report"}
           => username = Supplied
    /\ (Ended /\ fileExists /\ argv = <<>>) =>
           (pc = "done" /\ out = <<MISMATCH_ERROR>> /\ exitStatus = <<1>>)

\* C8: when the file opens the variable is set to the stored credential,
\* then the first comparison is made, then the variable is overwritten
\* with "testuser", then the second comparison is made only after a
\* successful first one; when the process ends the variable holds
\* "testuser".
C8_EnvironmentOrder ==
    fileExists =>
        /\ pc = "verify1" =>
              /\ setenvCalls = 1 /\ verifyCalls = 0
              /\ FileLines # <<>> => env = <<StoredCredential>>
        /\ pc = "setenv2" => (setenvCalls = 1 /\ verifyCalls = 1)
        /\ pc = "verify2" =>
              (setenvCalls = 2 /\ verifyCalls = 1 /\ env = <<USERNAME>>)
        /\ pc = "report" => (verifyCalls = 2 <=> verified[1])
        /\ Ended => env = <<USERNAME>>

\* C9: the file handle is open only while the file is read: it is closed
\* before the variable is written, before any comparison and any output,
\* and no handle is open when the process ends.
C9_HandleReleased ==
    /\ finOpen => pc \in {"getline", "close"}
    /\ (setenvCalls > 0 \/ verifyCalls > 0 \/ usedPtr # "none"
            \/ out # <<>>) => ~finOpen
    /\ Ended => ~finOpen

C9_Witness ==
    /\ fileExists /\ FileLines # <<>>
    /\ pc = "done" /\ setenvCalls = 2 /\ verifyCalls = 2
    /\ ~finOpen

\* C10: when .user cannot be opened the variable keeps the value the
\* process started with, no setenv is made and no comparison is made.
C10_OpenFailureLeavesEnvironment ==
    ~fileExists =>
        /\ env = envAtStart
        /\ setenvCalls = 0 /\ verifyCalls = 0 /\ usedPtr = "none"
        /\ pc \in {"open", "done"}

C10_Witness ==
    /\ ~fileExists /\ pc = "done"
    /\ env = <<"alice">> /\ envAtStart = <<"alice">>
    /\ setenvCalls = 0 /\ verifyCalls = 0

====
